---- MODULE Spec2Model ----
(***************************************************************************)
(* A model of the test-time adaptation core of fusion_bench:               *)
(*   - InfiniteDataLoader (compat/method/adamerging/                       *)
(*     clip_task_wise_adamerging.py), the auto-resetting batch stream;     *)
(*   - CLIPTaskWiseAdaMergingAlgorithm.on_test_time_adaptation_start, the  *)
(*     zero-shot head construction with its cache files;                   *)
(*   - DataAdaptiveWeightEnsemblingForCLIP.run (method/dawe/               *)
(*     dawe_for_clip.py), the adaptation loop with its checkpoints.        *)
(* Three specifications share the variables: StreamSpec, HeadSpec and Spec *)
(* (the adaptation run).  Each leaves the other parts at rest.             *)
(***************************************************************************)
EXTENDS Integers, Sequences, FiniteSets, TLC

\* ------------------------------------------------------------------ bounds
MaxLen == 3          \* longest batch source
CallsPerLen == 10    \* next() calls per batch of the longest source

MaxCalls == CallsPerLen * MaxLen

MaxSteps == 10       \* largest configured max_steps
MaxInterval == 3     \* largest configured save_interval
MaxBatches == 2      \* longest test loader of a task in the adaptation run
MaxStarts == 3       \* calls of on_test_time_adaptation_start in the process
MaxGets == 3         \* calls of get_shuffled_test_loader_iter in the process
MaxNexts == 3        \* next() calls on one cached stream

\* ------------------------------------------------------------ state
VARIABLES
    \* InfiniteDataLoader under test (StreamSpec)
    data_loader,     \* the wrapped loader: [len, shuffle]
    data_iter,       \* self.data_iter: [order, pos]
    ncalls,          \* number of __next__ calls made by the consumer
    last,            \* what the last __next__ call gave the consumer
    raises,          \* number of __next__ calls that surfaced StopIteration
    \* DataAdaptiveWeightEnsemblingForCLIP (Spec)
    max_steps,       \* self.max_steps
    save_interval,   \* self.save_interval
    hidden_size_arg, \* the hidden_size argument of __init__
    hidden_size,     \* self.hidden_size
    model_names,     \* modelpool.model_names, in enumeration order
    test_len,        \* number of batches of each task's test loader
    pc,              \* position of run()
    step_idx,        \* the loop variable of run(): unbound, or bound to a step
    task_idx,        \* how many tasks of the current step have been handled
    batch,           \* images of the batch drawn last
    losses,          \* the tasks whose loss has been added to losses
    events,          \* operations of the current step, in order
    shuffled_test_loader_iters, \* per task: its InfiniteDataLoader
    advanced,        \* per task: number of next() calls on its stream
    dict_feature_extractor,     \* config of the instantiated feature extractor
    inferred,        \* whether config.hidden_sizes was read
    clf_heads,       \* tasks that have a zero-shot head
    model,           \* the DAWE model built by load_models
    optimizer,       \* the Adam optimizer
    grad,            \* gradient held by the trainable parameters
    params,          \* model.parameters(): per parameter group, flag and value
    logged,          \* steps passed to fabric.log_dict
    checkpoints,     \* fabric.save calls, in order
    returned,        \* what run() returned
    exc,             \* the exception that left run()
    failed_at,       \* position at which it was raised
    \* CLIPTaskWiseAdaMergingAlgorithm (HeadSpec)
    algos,           \* per algorithm object: model config, model_names, fabric
    zeroshot_weights,\* the class attribute zeroshot_weights: task -> tensor
    cache_files,     \* the cache files that exist, with their content
    entry_stamp,     \* per mapping entry: the version of the file behind it
    encoder_calls,   \* per task: text-encoder passes made for it
    enc_at_start,    \* encoder_calls when the current call started
    next_id,         \* identity of the next tensor object created
    h_pc,            \* position of on_test_time_adaptation_start
    h_self,          \* the algorithm object it runs on
    h_idx,           \* number of tasks of model_names it has handled
    pretrained_path, \* its local pretrained_path
    local_weights,   \* its local zeroshot_weights
    h_srcs,          \* per handled task: head taken from "file" or "encoder"
    h_existed,       \* per probed task: whether its cache file existed
    last_store,      \* the last assignment to the mapping
    starts,          \* calls of on_test_time_adaptation_start so far
    \* CLIPTaskWiseAdaMergingAlgorithm's cached streams (StreamsSpec)
    get_pc,          \* "not_run", or "ready" once the instances exist
    pool_len,        \* batches of each task's test set in the model pool
    test_dataset_cache,  \* functools.cache of get_test_dataset: keys held
    loader_iter_cache,   \* functools.cache of get_shuffled_test_loader_iter
    built,           \* per key, InfiniteDataLoader objects built so far
    got,             \* what the last getter call returned
    handed,          \* per key, the objects getter calls have returned
    nexts,           \* per key, next() calls made on the key's stream
    gets             \* getter calls so far

streamVars == <<data_loader, data_iter, ncalls, last, raises>>

cfgVars == <<max_steps, save_interval, hidden_size_arg, model_names, test_len>>

loadVars == <<hidden_size, dict_feature_extractor, inferred, clf_heads>>

loopVars == <<step_idx, task_idx, batch, losses>>

trainVars == <<model, optimizer, grad, params>>

outVars == <<logged, checkpoints, returned>>

ctlVars == <<pc, exc, failed_at>>

iterVars == <<shuffled_test_loader_iters, advanced>>

runVars == <<cfgVars, loadVars, loopVars, trainVars, outVars, ctlVars, iterVars,
             events>>

headVars == <<algos, zeroshot_weights, cache_files, entry_stamp, encoder_calls,
              enc_at_start, next_id, h_pc, h_self, h_idx, pretrained_path,
              local_weights, h_srcs, h_existed, last_store, starts>>

getVars == <<get_pc, pool_len, test_dataset_cache, loader_iter_cache, built, got,
             handed, nexts, gets>>

vars == <<streamVars, runVars, headVars, getVars>>

\* ------------------------------------------------- the batch source
NoData == "NoData"
StopIteration == "StopIteration"

\* The orders in which one pass over n batches b_0..b_{n-1} can yield them.
Perms(n) == {p \in [1..n -> 0..(n-1)] : \A i, j \in 1..n : i # j => p[i] # p[j]}

InOrder(n) == [i \in 1..n |-> i - 1]

\* A finite loader: len batches, reshuffled on every iter() when shuffle is set.
Loaders == [len : 0..MaxLen, shuffle : BOOLEAN]

\* iter(data_loader): a fresh pass, positioned before its first batch.
DataLoaderIter(loader) ==
    IF loader.shuffle
    THEN {[order |-> p, pos |-> 0] : p \in Perms(loader.len)}
    ELSE {[order |-> InOrder(loader.len), pos |-> 0]}

\* next(it) of a finite pass: the next batch, or StopIteration at its end.
IterNext(it) ==
    IF it.pos < Len(it.order)
    THEN [raised |-> FALSE, data |-> it.order[it.pos + 1],
          it |-> [it EXCEPT !.pos = @ + 1]]
    ELSE [raised |-> TRUE, data |-> NoData, it |-> it]

\* A plausible slip: the pass is renewed on exhaustion, but the batch is only
\* fetched by the following call, so this call surfaces the end of the pass.
InfiniteNextNoRefetch(loader, it) ==
    LET r == IterNext(it) IN
    IF ~r.raised
    THEN {[raised |-> FALSE, data |-> r.data, data_iter |-> r.it]}
    ELSE {[raised |-> TRUE, data |-> NoData, data_iter |-> fresh] :
             fresh \in DataLoaderIter(loader)}

\* A plausible slip: on exhaustion the old pass is kept and its last batch
\* is given again, instead of re-iterating the loader.
InfiniteNextNoReset(loader, it) ==
    LET r == IterNext(it) IN
    IF ~r.raised
    THEN {[raised |-> FALSE, data |-> r.data, data_iter |-> r.it]}
    ELSE {[raised |-> it.pos = 0,
           data |-> IF it.pos = 0 THEN NoData ELSE it.order[it.pos],
           data_iter |-> it]}

\* InfiniteDataLoader.__next__: try next(self.data_iter); on StopIteration
\* assign a fresh iter(self.data_loader) and call next on it, unguarded.
InfiniteNext(loader, it) ==
    LET r == IterNext(it) IN
    IF ~r.raised
    THEN {[raised |-> FALSE, data |-> r.data, data_iter |-> r.it]}
    ELSE {LET r2 == IterNext(fresh) IN
          [raised |-> r2.raised, data |-> r2.data, data_iter |-> r2.it] :
             fresh \in DataLoaderIter(loader)}

\* -------------------------------------------- StreamSpec: one stream
\* InfiniteDataLoader.__init__
StreamInit ==
    /\ data_loader \in Loaders
    /\ data_iter \in DataLoaderIter(data_loader)
    /\ ncalls = 0
    /\ last = NoData
    /\ raises = 0

\* The stream part at rest, for the specifications that do not use it.
StreamIdle ==
    /\ data_loader = [len |-> 0, shuffle |-> FALSE]
    /\ data_iter = [order |-> <<>>, pos |-> 0]
    /\ ncalls = 0
    /\ last = NoData
    /\ raises = 0

\* The consumer calls next() on the stream.
StreamNext ==
    /\ ncalls < MaxCalls
    /\ \E r \in InfiniteNext(data_loader, data_iter) :
          /\ data_iter' = r.data_iter
          /\ last' = IF r.raised THEN StopIteration ELSE r.data
          /\ raises' = IF r.raised THEN raises + 1 ELSE raises
    /\ ncalls' = ncalls + 1
    /\ UNCHANGED data_loader
    /\ UNCHANGED <<runVars, headVars, getVars>>

\* ------------------------------------- the adaptation run: its values
Tasks == {"t1", "t2"}

\* Optional values: None, or Some(v).
None == <<>>
Some(v) == <<v>>

NoExc == "NoExc"

\* Orders in which a model pool can enumerate its (distinct) task names.
ModelNameLists ==
    {s \in UNION {[1..n -> Tasks] : n \in 1..Cardinality(Tasks)} :
        \A i, j \in DOMAIN s : i # j => s[i] # s[j]}

Range(s) == {s[i] : i \in DOMAIN s}

\* dict_feature_extractor.config as load_models reads it: the attribute
\* hidden_sizes is absent, is None, or is a list.
FeatureConfigs ==
    {[kind |-> "absent", hidden_sizes |-> <<>>],
     [kind |-> "none", hidden_sizes |-> <<>>]}
    \cup {[kind |-> "list", hidden_sizes |-> l] : l \in {<<>>, <<8, 16>>}}

NotInstantiated == [kind |-> "uninstantiated", hidden_sizes |-> <<>>]

HiddenSizeArgs == {None, Some(0), Some(32)}

NoModel == [built |-> FALSE, hidden_size |-> None, updates |-> 0]

NoOptimizer == [built |-> FALSE, steps |-> 0, params |-> {}]

\* The parameter groups of the DAWE model: the gating network is trainable,
\* the base model and the experts' task vectors are frozen.
ParamNames == {"gate", "base", "experts"}

NoParams == [p \in ParamNames |-> [requires_grad |-> FALSE, version |-> -1]]

ModelParameters ==
    [p \in ParamNames |-> [requires_grad |-> (p = "gate"), version |-> 0]]

\* [p for p in model.parameters() if p.requires_grad]
Trainable(ps) == {p \in DOMAIN ps : ps[p].requires_grad}

\* A plausible slip: an extractor without usable hidden_sizes silently
\* yields a default width instead of failing.
InferHiddenSizeDefault(cfg) ==
    IF cfg.kind = "list" /\ Len(cfg.hidden_sizes) > 0
    THEN [exc |-> NoExc, value |-> cfg.hidden_sizes[Len(cfg.hidden_sizes)]]
    ELSE [exc |-> NoExc, value |-> 0]

\* dict_feature_extractor.config.hidden_sizes[-1], with the exception Python
\* raises when the attribute is absent, is None or is an empty list.
InferHiddenSize(cfg) ==
    CASE cfg.kind = "absent" -> [exc |-> "AttributeError", value |-> 0]
      [] cfg.kind = "none" -> [exc |-> "TypeError", value |-> 0]
      [] cfg.kind = "list" /\ Len(cfg.hidden_sizes) = 0 ->
            [exc |-> "IndexError", value |-> 0]
      [] OTHER -> [exc |-> NoExc, value |-> cfg.hidden_sizes[Len(cfg.hidden_sizes)]]

\* setup_zero_shot_classification_head(task_names=...): one head per task.
SetupZeroShotClassificationHead(task_names) == Range(task_names)

\* The index range(max_steps) yields after step_idx, if any.
RangeNext(idx, n) ==
    LET nxt == IF idx = None THEN 0 ELSE idx[1] + 1 IN
    IF nxt < n THEN Some(nxt) ELSE None

\* A plausible slip: the save test on step_idx instead of step_idx + 1.
SaveDueOffByOne(idx, interval) == idx % interval = 0

\* (step_idx + 1) % self.save_interval == 0, for save_interval > 0.
SaveDue(idx, interval) == (idx + 1) % interval = 0

\* A plausible slip: the final save is forced whether or not the last step
\* was saved inside the loop.
FinalDueAlways(idx, interval) == TRUE

\* (step_idx + 1) % self.save_interval != 0, for save_interval > 0.
FinalDue(idx, interval) == (idx + 1) % interval # 0

\* Positions of run() inside one adaptation step, and before the loop.
StepPcs == {"draw", "logits", "zero_grad", "backward", "step", "log", "save"}
InitPcs == {"load_models", "load_datasets", "optimizer"}

\* ------------------------------------------ the adaptation run: control
Goto(p) == pc' = p /\ UNCHANGED <<exc, failed_at>>

\* A plausible slip: a failing operation is caught and the loop carries on
\* with the next step.
PropagateSwallowed(e) ==
    /\ exc' = e
    /\ failed_at' = pc
    /\ pc' = IF pc \in StepPcs THEN "for" ELSE "raised"

\* run() has no try/except: an exception raised at any position leaves run().
Propagate(e) ==
    /\ exc' = e
    /\ failed_at' = pc
    /\ pc' = "raised"

\* __init__ with its arguments, before run() is called.
RunInit ==
    /\ max_steps \in 0..MaxSteps
    /\ save_interval \in 0..MaxInterval
    /\ hidden_size_arg \in HiddenSizeArgs
    /\ hidden_size = hidden_size_arg
    /\ model_names \in ModelNameLists
    /\ test_len \in [Tasks -> 0..MaxBatches]
    /\ \A t \in Tasks \ Range(model_names) : test_len[t] = 0
    /\ pc = "load_models"
    /\ step_idx = None
    /\ task_idx = 0
    /\ batch = NoData
    /\ losses = <<>>
    /\ events = <<>>
    /\ shuffled_test_loader_iters = [t \in {} |-> 0]
    /\ advanced = [t \in Tasks |-> 0]
    /\ dict_feature_extractor = NotInstantiated
    /\ inferred = FALSE
    /\ clf_heads = {}
    /\ model = NoModel
    /\ optimizer = NoOptimizer
    /\ grad = None
    /\ params = NoParams
    /\ logged = <<>>
    /\ checkpoints = <<>>
    /\ returned = NoModel
    /\ exc = NoExc
    /\ failed_at = "nowhere"

\* The run part at rest, for the specifications that do not use it.
RunIdle ==
    /\ max_steps = 0
    /\ save_interval = 1
    /\ hidden_size_arg = None
    /\ hidden_size = None
    /\ model_names = <<"t1">>
    /\ test_len = [t \in Tasks |-> 0]
    /\ pc = "not_run"
    /\ step_idx = None
    /\ task_idx = 0
    /\ batch = NoData
    /\ losses = <<>>
    /\ events = <<>>
    /\ shuffled_test_loader_iters = [t \in {} |-> 0]
    /\ advanced = [t \in Tasks |-> 0]
    /\ dict_feature_extractor = NotInstantiated
    /\ inferred = FALSE
    /\ clf_heads = {}
    /\ model = NoModel
    /\ optimizer = NoOptimizer
    /\ grad = None
    /\ params = NoParams
    /\ logged = <<>>
    /\ checkpoints = <<>>
    /\ returned = NoModel
    /\ exc = NoExc
    /\ failed_at = "nowhere"

\* load_models: instantiate the feature extractor, infer hidden_size when
\* it is None, set up the zero-shot heads, build the model.
LoadModels ==
    /\ pc = "load_models"
    /\ \E cfg \in FeatureConfigs :
        /\ dict_feature_extractor' = cfg
        /\ LET r == IF hidden_size = None
                    THEN InferHiddenSize(cfg)
                    ELSE [exc |-> NoExc, value |-> hidden_size[1]] IN
           /\ inferred' = (hidden_size = None)
           /\ IF r.exc # NoExc
              THEN /\ Propagate(r.exc)
                   /\ UNCHANGED <<hidden_size, clf_heads, model, params>>
              ELSE /\ hidden_size' = Some(r.value)
                   /\ clf_heads' = SetupZeroShotClassificationHead(model_names)
                   /\ model' = [built |-> TRUE, hidden_size |-> Some(r.value),
                                updates |-> 0]
                   /\ params' = ModelParameters
                   /\ Goto("load_datasets")
    /\ UNCHANGED <<cfgVars, loopVars, optimizer, grad, outVars, iterVars, events>>
    /\ UNCHANGED <<streamVars, headVars, getVars>>

\* load_datasets: one loader and one InfiniteDataLoader per task name.
LoadDatasets ==
    /\ pc = "load_datasets"
    /\ shuffled_test_loader_iters' =
          [t \in Range(model_names) |->
              LET loader == [len |-> test_len[t], shuffle |-> FALSE] IN
              [data_loader |-> loader,
               data_iter |-> CHOOSE it \in DataLoaderIter(loader) : TRUE]]
    /\ Goto("optimizer")
    /\ UNCHANGED <<cfgVars, loadVars, loopVars, trainVars, outVars, advanced, events>>
    /\ UNCHANGED <<streamVars, headVars, getVars>>

\* torch.optim.Adam over the trainable parameters; fabric.setup; model.train().
SetupOptimizer ==
    /\ pc = "optimizer"
    /\ optimizer' = [built |-> TRUE, steps |-> 0, params |-> Trainable(params)]
    /\ Goto("for")
    /\ UNCHANGED <<cfgVars, loadVars, loopVars, model, grad, params, outVars, iterVars,
                   events>>
    /\ UNCHANGED <<streamVars, headVars, getVars>>

\* for step_idx in range(self.max_steps): bind the next step and set
\* losses = 0, or leave the loop with step_idx as it is.
ForNext ==
    /\ pc = "for"
    /\ LET nxt == RangeNext(step_idx, max_steps) IN
       IF nxt # None
       THEN /\ step_idx' = nxt
            /\ task_idx' = 0
            /\ losses' = <<>>
            /\ events' = <<>>
            /\ Goto("draw")
       ELSE /\ Goto("final")
            /\ UNCHANGED <<step_idx, task_idx, losses, events>>
    /\ UNCHANGED <<cfgVars, loadVars, batch, trainVars, outVars, iterVars>>
    /\ UNCHANGED <<streamVars, headVars, getVars>>

\* images, _ = next(self.shuffled_test_loader_iters[task_name])
Draw ==
    /\ pc = "draw"
    /\ LET t == model_names[task_idx + 1]
           s == shuffled_test_loader_iters[t] IN
       \E r \in InfiniteNext(s.data_loader, s.data_iter) :
          /\ shuffled_test_loader_iters' =
                [shuffled_test_loader_iters EXCEPT ![t].data_iter = r.data_iter]
          /\ advanced' = [advanced EXCEPT ![t] = @ + 1]
          /\ IF r.raised
             THEN /\ Propagate(StopIteration)
                  /\ UNCHANGED <<batch, events>>
             ELSE /\ batch' = r.data
                  /\ events' = Append(events, <<"draw", t>>)
                  /\ Goto("logits")
    /\ UNCHANGED <<cfgVars, loadVars, step_idx, task_idx, losses, trainVars, outVars>>
    /\ UNCHANGED <<streamVars, headVars, getVars>>

\* A plausible slip: optimizer.zero_grad() is left out of the step.
ComputeLossNoZeroGrad ==
    /\ pc = "logits"
    /\ IF model_names[task_idx + 1] \notin clf_heads
       THEN /\ Propagate("KeyError")
            /\ UNCHANGED <<losses, events, task_idx>>
       ELSE /\ losses' = Append(losses, model_names[task_idx + 1])
            /\ events' = Append(events, <<"loss", model_names[task_idx + 1]>>)
            /\ task_idx' = task_idx + 1
            /\ Goto(IF task_idx + 1 < Len(model_names) THEN "draw" ELSE "backward")
    /\ UNCHANGED <<cfgVars, loadVars, step_idx, batch, trainVars, outVars, iterVars>>
    /\ UNCHANGED <<streamVars, headVars, getVars>>

\* logits = self.compute_logits(...) against the task's zero-shot head
\* (a KeyError without one); loss = entropy_loss(logits); losses += loss;
\* then the next task, or on to the update.
ComputeLoss ==
    /\ pc = "logits"
    /\ IF model_names[task_idx + 1] \notin clf_heads
       THEN /\ Propagate("KeyError")
            /\ UNCHANGED <<losses, events, task_idx>>
       ELSE /\ losses' = Append(losses, model_names[task_idx + 1])
            /\ events' = Append(events, <<"loss", model_names[task_idx + 1]>>)
            /\ task_idx' = task_idx + 1
            /\ Goto(IF task_idx + 1 < Len(model_names) THEN "draw" ELSE "zero_grad")
    /\ UNCHANGED <<cfgVars, loadVars, step_idx, batch, trainVars, outVars, iterVars>>
    /\ UNCHANGED <<streamVars, headVars, getVars>>

\* optimizer.zero_grad()
ZeroGrad ==
    /\ pc = "zero_grad"
    /\ grad' = None
    /\ events' = Append(events, <<"zero_grad">>)
    /\ Goto("backward")
    /\ UNCHANGED <<cfgVars, loadVars, loopVars, model, optimizer, params, outVars,
                   iterVars>>
    /\ UNCHANGED <<streamVars, headVars, getVars>>

\* self.fabric.backward(losses): gradients accumulate onto what is held.
Backward ==
    /\ pc = "backward"
    /\ grad' = IF grad = None THEN Some(losses) ELSE Some(grad[1] \o losses)
    /\ events' = Append(events, <<"backward">>)
    /\ Goto("step")
    /\ UNCHANGED <<cfgVars, loadVars, loopVars, model, optimizer, params, outVars,
                   iterVars>>
    /\ UNCHANGED <<streamVars, headVars, getVars>>

\* An optimizer built over model.parameters() without the requires_grad
\* filter: its step updates every parameter group.
OptimizerStepAllParams ==
    /\ pc = "step"
    /\ optimizer' = [optimizer EXCEPT !.steps = @ + 1]
    /\ model' = [model EXCEPT !.updates = @ + 1]
    /\ params' = [p \in DOMAIN params |-> [params[p] EXCEPT !.version = @ + 1]]
    /\ events' = Append(events, <<"step">>)
    /\ Goto("log")
    /\ UNCHANGED <<cfgVars, loadVars, loopVars, grad, outVars, iterVars>>
    /\ UNCHANGED <<streamVars, headVars, getVars>>

\* optimizer.step(): one update of the parameters handed to the optimizer,
\* which are the ones with requires_grad; these hold the gradient of
\* losses.backward().
OptimizerStep ==
    /\ pc = "step"
    /\ optimizer' = [optimizer EXCEPT !.steps = @ + 1]
    /\ model' = [model EXCEPT !.updates = @ + 1]
    /\ params' = [p \in DOMAIN params |->
                     IF p \in optimizer.params /\ grad # None
                     THEN [params[p] EXCEPT !.version = @ + 1]
                     ELSE params[p]]
    /\ events' = Append(events, <<"step">>)
    /\ Goto("log")
    /\ UNCHANGED <<cfgVars, loadVars, loopVars, grad, outVars, iterVars>>
    /\ UNCHANGED <<streamVars, headVars, getVars>>

\* self.fabric.log_dict({"loss": losses.item()}, step=step_idx)
LogDict ==
    /\ pc = "log"
    /\ logged' = Append(logged, step_idx[1])
    /\ events' = Append(events, <<"log">>)
    /\ Goto("save")
    /\ UNCHANGED <<cfgVars, loadVars, loopVars, trainVars, checkpoints, returned,
                   iterVars>>
    /\ UNCHANGED <<streamVars, headVars, getVars>>

\* if (step_idx + 1) % self.save_interval == 0: self.fabric.save(model_{step_idx}.pt)
MaybeSave ==
    /\ pc = "save"
    /\ IF save_interval = 0
       THEN /\ Propagate("ZeroDivisionError")
            /\ UNCHANGED <<checkpoints, events>>
       ELSE /\ IF SaveDue(step_idx[1], save_interval)
               THEN /\ checkpoints' = Append(checkpoints,
                          [path |-> step_idx[1], updates |-> model.updates,
                           forced |-> FALSE])
                    /\ events' = Append(events, <<"save">>)
               ELSE UNCHANGED <<checkpoints, events>>
            /\ Goto("for")
    /\ UNCHANGED <<cfgVars, loadVars, loopVars, trainVars, logged, returned, iterVars>>
    /\ UNCHANGED <<streamVars, headVars, getVars>>

\* After the loop: if (step_idx + 1) % self.save_interval != 0, save the
\* last step.  step_idx is read whether or not the loop bound it.
FinalSave ==
    /\ pc = "final"
    /\ IF step_idx = None
       THEN /\ Propagate("UnboundLocalError")
            /\ UNCHANGED checkpoints
       ELSE IF save_interval = 0
       THEN /\ Propagate("ZeroDivisionError")
            /\ UNCHANGED checkpoints
       ELSE /\ IF FinalDue(step_idx[1], save_interval)
               THEN checkpoints' = Append(checkpoints,
                          [path |-> step_idx[1], updates |-> model.updates,
                           forced |-> TRUE])
               ELSE UNCHANGED checkpoints
            /\ Goto("return")
    /\ UNCHANGED <<cfgVars, loadVars, loopVars, trainVars, logged, returned, iterVars,
                   events>>
    /\ UNCHANGED <<streamVars, headVars, getVars>>

\* return model
Return ==
    /\ pc = "return"
    /\ returned' = model
    /\ Goto("done")
    /\ UNCHANGED <<cfgVars, loadVars, loopVars, trainVars, logged, checkpoints,
                   iterVars, events>>
    /\ UNCHANGED <<streamVars, headVars, getVars>>

\* An operation of run() fails (device out of memory, I/O error, ...): the
\* operation has no effect and its exception leaves run().
OperationFails ==
    /\ pc \in InitPcs \cup StepPcs \cup {"final"}
    /\ Propagate("ComputeError")
    /\ UNCHANGED <<cfgVars, loadVars, loopVars, trainVars, outVars, iterVars, events>>
    /\ UNCHANGED <<streamVars, headVars, getVars>>

\* --------------------------- zero-shot heads: values of the head part
Algos == {"a1", "a2"}

\* Task names a model pool may list, and those the task registry knows.
HeadTasks == {"t1", "t2", "tx"}

Registered(task) == task \in {"t1", "t2"}

HeadNameLists == {<<"t1">>, <<"t2", "t1">>, <<"t1", "tx">>}

\* The "_pretrained_" model config: with or without the attribute
\* pretrained_model_name_or_path; paths are lists of components.
ModelConfigs ==
    {[has_name |-> TRUE, pretrained_model_name_or_path |-> <<"openai", "B32">>,
      path |-> <<"openai", "L14">>],
     [has_name |-> FALSE, pretrained_model_name_or_path |-> <<>>,
      path |-> <<"local", "B32">>],
     [has_name |-> FALSE, pretrained_model_name_or_path |-> <<>>,
      path |-> <<"openai", "L14">>]}

\* self._fabric: None, or a fabric with its device.
Fabrics == {None, Some("cuda")}

NoTensor == [id |-> 0, val |-> <<>>, dev |-> "none"]

NoStore == [algo |-> "none", task |-> "none", src |-> "none", existed |-> FALSE,
            encoder_passes |-> 0, new |-> NoTensor, prev |-> NoTensor,
            stamp |-> 0, prev_stamp |-> 0]

\* pretrained_path of on_test_time_adaptation_start
PretrainedPath(cfg) ==
    IF cfg.has_name THEN cfg.pretrained_model_name_or_path ELSE cfg.path

\* os.path.basename of a path given by its components
Basename(path) == path[Len(path)]

\* os.path.join(cache_dir, f"{basename(pretrained_path)}_{task}_zeroshot_weights.pt")
CacheFile(path, task) == <<Basename(path), task>>

\* The head the text encoder of a backbone yields for a task.
Embed(path, task) == <<path, task>>

\* fabric.to_device: the tensor itself when it is on the device already,
\* otherwise a copy (a new object, with identity id) on the device.
ToDevice(tensor, fabric, id) ==
    IF fabric = None \/ fabric[1] = tensor.dev
    THEN tensor
    ELSE [id |-> id, val |-> tensor.val, dev |-> fabric[1]]

\* Cache files left by earlier processes.
OldFiles ==
    [{<<"B32", "t1">>} -> {[val |-> Embed(<<"openai", "B32">>, "t1"), stamp |-> 0]}]

Restrict(f, S) == [x \in S |-> f[x]]

\* ------------------------------------- zero-shot heads: the operations
\* Two algorithm objects with their pools and configs; nothing built yet.
HeadInit ==
    /\ algos \in [Algos -> [model_config : ModelConfigs, model_names : HeadNameLists,
                            fabric : Fabrics]]
    /\ \E f \in OldFiles : \E S \in SUBSET DOMAIN f : cache_files = Restrict(f, S)
    /\ zeroshot_weights = [t \in {} |-> NoTensor]
    /\ entry_stamp = [t \in {} |-> 0]
    /\ encoder_calls = [t \in HeadTasks |-> 0]
    /\ enc_at_start = [t \in HeadTasks |-> 0]
    /\ next_id = 1
    /\ h_pc = "idle"
    /\ h_self = "none"
    /\ h_idx = 0
    /\ pretrained_path = <<>>
    /\ local_weights = NoTensor
    /\ h_srcs = <<>>
    /\ h_existed = <<>>
    /\ last_store = NoStore
    /\ starts = 0

\* The head part at rest, for the specifications that do not use it.
HeadIdle ==
    /\ algos = [a \in Algos |->
                  [model_config |-> CHOOSE c \in ModelConfigs : c.has_name,
                   model_names |-> <<"t1">>, fabric |-> None]]
    /\ cache_files = [p \in {} |-> 0]
    /\ zeroshot_weights = [t \in {} |-> NoTensor]
    /\ entry_stamp = [t \in {} |-> 0]
    /\ encoder_calls = [t \in HeadTasks |-> 0]
    /\ enc_at_start = [t \in HeadTasks |-> 0]
    /\ next_id = 1
    /\ h_pc = "not_run"
    /\ h_self = "none"
    /\ h_idx = 0
    /\ pretrained_path = <<>>
    /\ local_weights = NoTensor
    /\ h_srcs = <<>>
    /\ h_existed = <<>>
    /\ last_store = NoStore
    /\ starts = 0

\* on_test_time_adaptation_start is called on algorithm a: resolve the
\* pretrained path, load processor and model (lines 75-91).
HeadStart(a) ==
    /\ h_pc = "idle"
    /\ starts < MaxStarts
    /\ starts' = starts + 1
    /\ h_self' = a
    /\ h_idx' = 0
    /\ pretrained_path' = PretrainedPath(algos[a].model_config)
    /\ local_weights' = NoTensor
    /\ h_srcs' = <<>>
    /\ h_existed' = <<>>
    /\ enc_at_start' = encoder_calls
    /\ h_pc' = "probe"
    /\ UNCHANGED <<algos, cache_files, zeroshot_weights, entry_stamp, encoder_calls,
                   next_id, last_store>>
    /\ UNCHANGED <<streamVars, runVars, getVars>>

\* A plausible slip: the cache file is not looked for, the head is always
\* computed.
HeadProbeIgnoreCache ==
    /\ h_pc = "probe"
    /\ IF h_idx = Len(algos[h_self].model_names)
       THEN /\ h_pc' = "returned"
            /\ UNCHANGED h_existed
       ELSE LET task == algos[h_self].model_names[h_idx + 1]
                cache_file == CacheFile(pretrained_path, task) IN
            /\ h_existed' = Append(h_existed, cache_file \in DOMAIN cache_files)
            /\ h_pc' = "build"
    /\ UNCHANGED <<algos, cache_files, zeroshot_weights, entry_stamp, encoder_calls,
                   enc_at_start, next_id, h_self, h_idx, pretrained_path,
                   local_weights, h_srcs, last_store, starts>>
    /\ UNCHANGED <<streamVars, runVars, getVars>>

\* for task in self.modelpool.model_names: cache_file = ...;
\* if os.path.exists(cache_file) (lines 93-98); after the last task, return.
HeadProbe ==
    /\ h_pc = "probe"
    /\ IF h_idx = Len(algos[h_self].model_names)
       THEN /\ h_pc' = "returned"
            /\ UNCHANGED h_existed
       ELSE LET task == algos[h_self].model_names[h_idx + 1]
                cache_file == CacheFile(pretrained_path, task) IN
            /\ h_existed' = Append(h_existed, cache_file \in DOMAIN cache_files)
            /\ h_pc' = IF cache_file \in DOMAIN cache_files THEN "load" ELSE "build"
    /\ UNCHANGED <<algos, cache_files, zeroshot_weights, entry_stamp, encoder_calls,
                   enc_at_start, next_id, h_self, h_idx, pretrained_path,
                   local_weights, h_srcs, last_store, starts>>
    /\ UNCHANGED <<streamVars, runVars, getVars>>

\* zeroshot_weights = torch.load(cache_file, map_location="cpu") (lines 99-100)
HeadLoad ==
    /\ h_pc = "load"
    /\ LET task == algos[h_self].model_names[h_idx + 1]
           cache_file == CacheFile(pretrained_path, task) IN
       local_weights' = [id |-> next_id, val |-> cache_files[cache_file].val,
                         dev |-> "cpu"]
    /\ next_id' = next_id + 1
    /\ h_srcs' = Append(h_srcs, "file")
    /\ h_pc' = "store"
    /\ UNCHANGED <<algos, cache_files, zeroshot_weights, entry_stamp, encoder_calls,
                   enc_at_start, h_self, h_idx, pretrained_path, h_existed,
                   last_store, starts>>
    /\ UNCHANGED <<streamVars, runVars, getVars>>

\* A plausible slip: the computed head is not written to the cache file.
HeadBuildNoSave ==
    /\ h_pc = "build"
    /\ LET task == algos[h_self].model_names[h_idx + 1] IN
       IF ~Registered(task)
       THEN /\ h_pc' = "raised"
            /\ UNCHANGED <<local_weights, encoder_calls, next_id, h_srcs>>
       ELSE /\ encoder_calls' = [encoder_calls EXCEPT ![task] = @ + 1]
            /\ local_weights' = [id |-> next_id, val |-> Embed(pretrained_path, task),
                                 dev |-> "cpu"]
            /\ next_id' = next_id + 1
            /\ h_srcs' = Append(h_srcs, "encoder")
            /\ h_pc' = "store"
    /\ UNCHANGED <<algos, cache_files, zeroshot_weights, entry_stamp, enc_at_start,
                   h_self, h_idx, pretrained_path, h_existed, last_store, starts>>
    /\ UNCHANGED <<streamVars, runVars, getVars>>

\* get_classnames_and_templates(task) (fails for a task the registry does
\* not know); clip_classifier.set_classification_task; torch.save of the
\* head to cache_file (lines 102-107).
HeadBuild ==
    /\ h_pc = "build"
    /\ LET task == algos[h_self].model_names[h_idx + 1]
           cache_file == CacheFile(pretrained_path, task) IN
       IF ~Registered(task)
       THEN /\ h_pc' = "raised"
            /\ UNCHANGED <<local_weights, encoder_calls, next_id, h_srcs, cache_files>>
       ELSE /\ encoder_calls' = [encoder_calls EXCEPT ![task] = @ + 1]
            /\ local_weights' = [id |-> next_id, val |-> Embed(pretrained_path, task),
                                 dev |-> "cpu"]
            /\ next_id' = next_id + 1
            /\ h_srcs' = Append(h_srcs, "encoder")
            /\ cache_files' =
                  [p \in DOMAIN cache_files \cup {cache_file} |->
                      IF p = cache_file
                      THEN [val |-> Embed(pretrained_path, task), stamp |-> next_id]
                      ELSE cache_files[p]]
            /\ h_pc' = "store"
    /\ UNCHANGED <<algos, zeroshot_weights, entry_stamp, enc_at_start,
                   h_self, h_idx, pretrained_path, h_existed, last_store, starts>>
    /\ UNCHANGED <<streamVars, runVars, getVars>>

\* self.zeroshot_weights[task] = zeroshot_weights, moved to the fabric's
\* device when there is a fabric (lines 108-112).  The mapping is the class
\* attribute: the assignment writes the one dict all instances share.
HeadStore ==
    /\ h_pc = "store"
    /\ LET task == algos[h_self].model_names[h_idx + 1]
           cache_file == CacheFile(pretrained_path, task)
           stored == ToDevice(local_weights, algos[h_self].fabric, next_id)
           had == task \in DOMAIN zeroshot_weights IN
       /\ zeroshot_weights' =
             [t \in DOMAIN zeroshot_weights \cup {task} |->
                 IF t = task THEN stored ELSE zeroshot_weights[t]]
       /\ entry_stamp' =
             [t \in DOMAIN entry_stamp \cup {task} |->
                 IF t = task
                 THEN IF cache_file \in DOMAIN cache_files
                      THEN cache_files[cache_file].stamp ELSE -1
                 ELSE entry_stamp[t]]
       /\ next_id' = IF stored = local_weights THEN next_id ELSE next_id + 1
       /\ last_store' =
             [algo |-> h_self, task |-> task, src |-> h_srcs[Len(h_srcs)],
              existed |-> h_existed[Len(h_existed)],
              encoder_passes |-> encoder_calls[task] - enc_at_start[task],
              new |-> stored,
              prev |-> IF had THEN zeroshot_weights[task] ELSE NoTensor,
              stamp |-> IF cache_file \in DOMAIN cache_files
                        THEN cache_files[cache_file].stamp ELSE -1,
              prev_stamp |-> IF had THEN entry_stamp[task] ELSE -2]
    /\ h_idx' = h_idx + 1
    /\ h_pc' = "probe"
    /\ UNCHANGED <<algos, cache_files, encoder_calls, enc_at_start, h_self,
                   pretrained_path, local_weights, h_srcs, h_existed, starts>>
    /\ UNCHANGED <<streamVars, runVars, getVars>>

\* The call is over (returned, or left by an exception): back in the caller.
HeadReturn ==
    /\ h_pc \in {"returned", "raised"}
    /\ h_pc' = "idle"
    /\ UNCHANGED <<algos, cache_files, zeroshot_weights, entry_stamp, encoder_calls,
                   enc_at_start, next_id, h_self, h_idx, pretrained_path,
                   local_weights, h_srcs, h_existed, last_store, starts>>
    /\ UNCHANGED <<streamVars, runVars, getVars>>

\* Between two calls a cache file is deleted from outside.
RemoveCacheFile ==
    /\ h_pc = "idle"
    /\ starts < MaxStarts
    /\ \E p \in DOMAIN cache_files :
          cache_files' = Restrict(cache_files, DOMAIN cache_files \ {p})
    /\ UNCHANGED <<algos, zeroshot_weights, entry_stamp, encoder_calls,
                   enc_at_start, next_id, h_pc, h_self, h_idx, pretrained_path,
                   local_weights, h_srcs, h_existed, last_store, starts>>
    /\ UNCHANGED <<streamVars, runVars, getVars>>

\* ------------------------- the cached per-task streams of an algorithm
\* The arguments functools.cache keys a method call on: the instance and
\* the task name.
CacheKeys == Algos \X Tasks

NoGot == [algo |-> "none", task |-> "none", id |-> <<>>]

\* The instances exist and their model pool is set; nothing was called.
GetInit ==
    /\ get_pc = "ready"
    /\ pool_len \in [Tasks -> 0..MaxBatches]
    /\ test_dataset_cache = {}
    /\ loader_iter_cache = [k \in {} |-> <<>>]
    /\ built = [k \in CacheKeys |-> 0]
    /\ got = NoGot
    /\ handed = [k \in CacheKeys |-> {}]
    /\ nexts = [k \in CacheKeys |-> 0]
    /\ gets = 0

\* The getter part at rest, for the specifications that do not use it.
GetIdle ==
    /\ get_pc = "not_run"
    /\ pool_len = [t \in Tasks |-> 0]
    /\ test_dataset_cache = {}
    /\ loader_iter_cache = [k \in {} |-> <<>>]
    /\ built = [k \in CacheKeys |-> 0]
    /\ got = NoGot
    /\ handed = [k \in CacheKeys |-> {}]
    /\ nexts = [k \in CacheKeys |-> 0]
    /\ gets = 0

\* The body of get_shuffled_test_loader_iter: a shuffling DataLoader over
\* get_test_dataset(task) (itself cached), set up by the fabric when there
\* is one, wrapped in a new InfiniteDataLoader; iter() of it is the object
\* itself.  n numbers the objects built for the key.
NewLoaderIter(a, t, n) ==
    LET loader == [len |-> pool_len[t], shuffle |-> TRUE] IN
    {[id |-> <<a, t, n>>, data_loader |-> loader, data_iter |-> it,
      fabric |-> algos[a].fabric] : it \in DataLoaderIter(loader)}

\* A plausible slip: the method without @functools.cache, every call
\* building a new stream for the task.
GetShuffledTestLoaderIterNoCache(a, t) ==
    /\ get_pc = "ready"
    /\ gets < MaxGets
    /\ \E s \in NewLoaderIter(a, t, built[<<a, t>>] + 1) :
          /\ loader_iter_cache' =
                [k \in DOMAIN loader_iter_cache \cup {<<a, t>>} |->
                    IF k = <<a, t>> THEN s ELSE loader_iter_cache[k]]
          /\ got' = [algo |-> a, task |-> t, id |-> s.id]
          /\ handed' = [handed EXCEPT ![<<a, t>>] = @ \cup {s.id}]
    /\ test_dataset_cache' = test_dataset_cache \cup {<<a, t>>}
    /\ built' = [built EXCEPT ![<<a, t>>] = @ + 1]
    /\ gets' = gets + 1
    /\ UNCHANGED <<get_pc, pool_len, nexts>>
    /\ UNCHANGED <<streamVars, runVars, headVars>>

\* self.get_shuffled_test_loader_iter(task) under @functools.cache: a call
\* with arguments seen before returns the object of the first call and
\* runs nothing; a first call runs the body and keeps its result.
GetShuffledTestLoaderIter(a, t) ==
    /\ get_pc = "ready"
    /\ gets < MaxGets
    /\ IF <<a, t>> \in DOMAIN loader_iter_cache
       THEN /\ got' = [algo |-> a, task |-> t, id |-> loader_iter_cache[<<a, t>>].id]
            /\ handed' = [handed EXCEPT ![<<a, t>>] =
                            @ \cup {loader_iter_cache[<<a, t>>].id}]
            /\ UNCHANGED <<loader_iter_cache, test_dataset_cache, built>>
       ELSE /\ \E s \in NewLoaderIter(a, t, built[<<a, t>>] + 1) :
                  /\ loader_iter_cache' =
                        [k \in DOMAIN loader_iter_cache \cup {<<a, t>>} |->
                            IF k = <<a, t>> THEN s ELSE loader_iter_cache[k]]
                  /\ got' = [algo |-> a, task |-> t, id |-> s.id]
                  /\ handed' = [handed EXCEPT ![<<a, t>>] = @ \cup {s.id}]
            /\ test_dataset_cache' = test_dataset_cache \cup {<<a, t>>}
            /\ built' = [built EXCEPT ![<<a, t>>] = @ + 1]
    /\ gets' = gets + 1
    /\ UNCHANGED <<get_pc, pool_len, nexts>>
    /\ UNCHANGED <<streamVars, runVars, headVars>>

\* next() on the stream held for an instance and task.
LoaderIterNext(a, t) ==
    /\ get_pc = "ready"
    /\ <<a, t>> \in DOMAIN loader_iter_cache
    /\ nexts[<<a, t>>] < MaxNexts
    /\ LET s == loader_iter_cache[<<a, t>>] IN
       \E r \in InfiniteNext(s.data_loader, s.data_iter) :
          loader_iter_cache' =
             [loader_iter_cache EXCEPT ![<<a, t>>].data_iter = r.data_iter]
    /\ nexts' = [nexts EXCEPT ![<<a, t>>] = @ + 1]
    /\ UNCHANGED <<get_pc, pool_len, test_dataset_cache, built, got, handed, gets>>
    /\ UNCHANGED <<streamVars, runVars, headVars>>

InitHead == StreamIdle /\ RunIdle /\ HeadInit /\ GetIdle

NextHead ==
    \/ \E a \in Algos : HeadStart(a)
    \/ HeadProbe
    \/ HeadLoad
    \/ HeadBuild
    \/ HeadStore
    \/ HeadReturn
    \/ RemoveCacheFile

HeadSpec == InitHead /\ [][NextHead]_vars

Init == StreamIdle /\ RunInit /\ HeadIdle /\ GetIdle

Next ==
    \/ LoadModels
    \/ LoadDatasets
    \/ SetupOptimizer
    \/ ForNext
    \/ Draw
    \/ ComputeLoss
    \/ ZeroGrad
    \/ Backward
    \/ OptimizerStep
    \/ LogDict
    \/ MaybeSave
    \/ FinalSave
    \/ Return
    \/ OperationFails

Spec == Init /\ [][Next]_vars

InitStream == StreamInit /\ RunIdle /\ HeadIdle /\ GetIdle
NextStream == StreamNext
StreamSpec == InitStream /\ [][NextStream]_vars

\* Either an adaptation run of DAWE, or calls of the cached getter and of
\* next() on the streams it hands out.
InitStreams ==
    \/ StreamIdle /\ RunInit /\ HeadIdle /\ GetIdle
    \/ StreamIdle /\ RunIdle /\ HeadIdle /\ GetInit

NextGet ==
    \/ \E a \in Algos : \E t \in Tasks : GetShuffledTestLoaderIter(a, t)
    \/ \E a \in Algos : \E t \in Tasks : LoaderIterNext(a, t)

NextStreams == Next \/ NextGet

StreamsSpec == InitStreams /\ [][NextStreams]_vars

\* ---------------------------------------------------------- claims
\* C1: over a source of length L >= 1, every next() call on the stream,
\* whatever their number and however many pass boundaries they cross,
\* returns a batch of the source and none surfaces StopIteration.
C1_NeverExhausted ==
    data_loader.len >= 1 =>
        /\ raises = 0
        /\ ncalls >= 1 => last \in 0..(data_loader.len - 1)

\* C1 witness: 10 * L calls on a source of L >= 2 batches, none raising.
C1_Witness ==
    /\ data_loader.len >= 2
    /\ ncalls = CallsPerLen * data_loader.len
    /\ raises = 0
    /\ last \in 0..(data_loader.len - 1)

\* C2: over a source that yields b_0..b_{L-1} in the same order on every
\* pass, the k-th next() call returns b_{(k-1) mod L}; the call that finds
\* the pass exhausted returns the first batch of the new pass itself.
C2_KthBatch ==
    (data_loader.len >= 1 /\ ~data_loader.shuffle /\ ncalls >= 1) =>
        last = (ncalls - 1) % data_loader.len

\* C2 witness: the call right after the second wraparound of a 3-batch
\* source has returned b_0 again.
C2_Witness ==
    /\ data_loader.len = 3
    /\ ~data_loader.shuffle
    /\ ncalls = 7
    /\ last = 0
    /\ data_iter.pos = 1

\* ---------------------------------------------- claims on the run
CheckpointPaths == {checkpoints[i].path : i \in DOMAIN checkpoints}

\* C3: for max_steps M >= 1 and save_interval I >= 1, a run that completes
\* has written model_{s}.pt exactly for the steps s of 0..M-1 with
\* (s+1) mod I = 0, and for s = M-1; for no other step.
C3_CheckpointSteps ==
    (pc = "done" /\ max_steps >= 1 /\ save_interval >= 1) =>
        CheckpointPaths =
            {s \in 0..(max_steps - 1) : (s + 1) % save_interval = 0}
            \cup {max_steps - 1}

\* C3 witness: the spec's example, max_steps = 10 and save_interval = 3,
\* completed with checkpoints for steps 2, 5, 8 and 9.
C3_Witness ==
    /\ pc = "done"
    /\ max_steps = 10
    /\ save_interval = 3
    /\ CheckpointPaths = {2, 5, 8, 9}

\* C4: on a run that completes, the model state after the last step is
\* persisted exactly once: the final save is forced iff the last step was
\* not a save point of the loop, and no checkpoint path is written twice.
C4_LastStepSavedOnce ==
    pc = "done" =>
        LET lastSaves == {i \in DOMAIN checkpoints :
                             checkpoints[i].path = max_steps - 1} IN
        /\ Cardinality(lastSaves) = 1
        /\ \A i \in lastSaves : checkpoints[i].updates = model.updates
        /\ (\E i \in DOMAIN checkpoints : checkpoints[i].forced)
              <=> ~(\E i \in lastSaves : ~checkpoints[i].forced)
        /\ \A i, j \in DOMAIN checkpoints :
              i # j => checkpoints[i].path # checkpoints[j].path

\* C4 witness: a completed run whose last step is a save point of the loop
\* (max_steps = 6, save_interval = 3): no forced save, one file for step 5.
C4_Witness ==
    /\ pc = "done"
    /\ max_steps = 6
    /\ save_interval = 3
    /\ Len(checkpoints) = 2
    /\ checkpoints[2] = [path |-> 5, updates |-> 6, forced |-> FALSE]

\* Whether config.hidden_sizes offers a last element to infer from.
Inferable(cfg) == cfg.kind = "list" /\ Len(cfg.hidden_sizes) > 0

\* C7 as stated: with hidden_size not supplied and not inferable, model
\* construction fails with a ConfigurationError before any adaptation step.
C7_ConfigurationError ==
    (/\ hidden_size_arg = None
     /\ dict_feature_extractor # NotInstantiated
     /\ ~Inferable(dict_feature_extractor)) =>
        (pc = "raised" /\ failed_at = "load_models" /\ exc = "ConfigurationError")

\* C7 as amended: with hidden_size not supplied and not inferable,
\* load_models fails before any adaptation step with the exception of the
\* failed read of config.hidden_sizes[-1] (AttributeError, TypeError or
\* IndexError), and no model is built; a hidden_size supplied explicitly is
\* used unchanged and config.hidden_sizes is not read.
C7_FailsInLoadModels ==
    /\ (/\ hidden_size_arg = None
        /\ dict_feature_extractor # NotInstantiated
        /\ ~Inferable(dict_feature_extractor)) =>
           /\ pc = "raised"
           /\ failed_at = "load_models"
           /\ exc = (CASE dict_feature_extractor.kind = "absent" -> "AttributeError"
                       [] dict_feature_extractor.kind = "none" -> "TypeError"
                       [] OTHER -> "IndexError")
           /\ model = NoModel
           /\ step_idx = None
           /\ optimizer = NoOptimizer
    /\ (hidden_size_arg # None /\ model.built) =>
           /\ model.hidden_size = hidden_size_arg
           /\ hidden_size = hidden_size_arg
           /\ ~inferred

\* C7 witness: hidden_size is None, the extractor's config has no
\* hidden_sizes, and load_models has failed with AttributeError.
C7_Witness ==
    /\ hidden_size_arg = None
    /\ dict_feature_extractor.kind = "absent"
    /\ pc = "raised"
    /\ exc = "AttributeError"
    /\ inferred

IsPrefix(s, t) == Len(s) <= Len(t) /\ \A i \in 1..Len(s) : s[i] = t[i]

\* draw and loss of every task in the pool's order
TaskEvents(names) ==
    [i \in 1..(2 * Len(names)) |->
        IF i % 2 = 1 THEN <<"draw", names[(i + 1) \div 2]>>
                     ELSE <<"loss", names[i \div 2]>>]

StepEvents(idx) ==
    TaskEvents(model_names) \o <<<<"zero_grad">>, <<"backward">>, <<"step">>, <<"log">>>>
    \o (IF save_interval > 0 /\ (idx + 1) % save_interval = 0
        THEN <<<<"save">>>> ELSE <<>>)

Occurs(e) == \E i \in DOMAIN events : events[i] = e

\* C8: a step draws one batch per task in the pool's order and sums the
\* losses, then zeroes the gradients, backpropagates the sum, takes one
\* optimizer step, logs, and only then may save, all before the next step
\* draws; after k completed steps every stream was advanced k times and the
\* optimizer has stepped k times.
C8_StepOrder ==
    (exc = NoExc /\ step_idx # None) =>
        /\ IsPrefix(events, StepEvents(step_idx[1]))
        /\ \A t \in Range(model_names) :
              advanced[t] = step_idx[1] + (IF Occurs(<<"draw", t>>) THEN 1 ELSE 0)
        /\ optimizer.steps = step_idx[1] + (IF Occurs(<<"step">>) THEN 1 ELSE 0)
        /\ Len(logged) = step_idx[1] + (IF Occurs(<<"log">>) THEN 1 ELSE 0)
        /\ pc = "step" => grad = Some(model_names)
        /\ pc \in {"for", "final", "return", "done"} =>
              events = StepEvents(step_idx[1])

\* C8 witness: the third step of a two-task run with save_interval = 3 is
\* complete, checkpoint included, and the fourth has not drawn yet.
C8_Witness ==
    /\ pc = "for"
    /\ model_names = <<"t2", "t1">>
    /\ save_interval = 3
    /\ step_idx = Some(2)
    /\ events = <<<<"draw", "t2">>, <<"loss", "t2">>, <<"draw", "t1">>,
                  <<"loss", "t1">>, <<"zero_grad">>, <<"backward">>, <<"step">>,
                  <<"log">>, <<"save">>>>
    /\ advanced = [t \in Tasks |-> 3]
    /\ optimizer.steps = 3

\* C9 as stated: for every max_steps, 0 included, unless an operation of
\* Init or of a step fails the run performs max_steps steps, reaches Done
\* and returns the adapted model.
C9_ReachesDone ==
    save_interval >= 1 =>
        /\ (exc # NoExc /\ exc # "ComputeError") => failed_at \in InitPcs \cup StepPcs
        /\ pc = "done" => (optimizer.steps = max_steps /\ returned = model)

\* C10: an exception raised by an operation of a step leaves run(): the
\* raising operation changes neither model, optimizer, checkpoints nor log,
\* nothing is returned, and no operation of run() follows it.
C10_Aborts ==
    [][/\ exc = NoExc
       /\ exc' # NoExc =>
            /\ pc' = "raised"
            /\ returned' = NoModel
            /\ UNCHANGED <<model, optimizer, checkpoints, logged, step_idx>>]_vars

\* C10 witness: backward failed in the fourth step; the checkpoint of the
\* third step is there, nothing was returned.
C10_Witness ==
    /\ pc = "raised"
    /\ failed_at = "backward"
    /\ step_idx = Some(3)
    /\ save_interval = 3
    /\ CheckpointPaths = {2}
    /\ optimizer.steps = 3
    /\ returned = NoModel

\* ------------------------------------- claims on the zero-shot heads
\* C5 as stated: building the head of a task that was built before in the
\* process gives the identical tensor object held in the mapping, without
\* the text encoder and without reading or creating it from another source.
C5_IdenticalCachedObject ==
    last_store.prev # NoTensor =>
        /\ last_store.new.id = last_store.prev.id
        /\ last_store.src \notin {"file", "encoder"}

\* C5 as amended: building the head of a task that has an entry in the
\* mapping, with the task's cache file present, does not consult the
\* mapping: the file is read again with torch.load, the text encoder is not
\* invoked, and the entry is replaced by a new tensor object, which is
\* element-wise equal to the replaced one when both come from the same
\* version of the cache file.
C5_ReloadedFromCacheFile ==
    (last_store.prev # NoTensor /\ last_store.existed) =>
        /\ last_store.src = "file"
        /\ last_store.encoder_passes = 0
        /\ last_store.new.id # last_store.prev.id
        /\ last_store.stamp = last_store.prev_stamp =>
              last_store.new.val = last_store.prev.val

\* C5 witness: a head computed and cached in this process was built a
\* second time: one encoder pass in all, a new object with equal elements.
C5_Witness ==
    /\ last_store.prev # NoTensor
    /\ last_store.existed
    /\ last_store.src = "file"
    /\ last_store.stamp > 0
    /\ last_store.stamp = last_store.prev_stamp
    /\ encoder_calls[last_store.task] = 1
    /\ last_store.new.val = last_store.prev.val
    /\ last_store.new.id # last_store.prev.id

\* C6: for every task of model_names the head is loaded from the cache
\* file when that file exists, without a text-encoder pass for the task,
\* and otherwise computed and written to the cache file before it is
\* stored; when on_test_time_adaptation_start returns, every task has an
\* entry in zeroshot_weights and a cache file named after the backbone's
\* basename and the task.
C6_LoadedOrBuiltAndCached ==
    h_pc \in {"probe", "load", "build", "store", "returned", "raised"} =>
        LET names == algos[h_self].model_names
            base == Basename(PretrainedPath(algos[h_self].model_config)) IN
        /\ \A k \in 1..Len(h_srcs) :
              /\ h_existed[k] <=> h_srcs[k] = "file"
              /\ encoder_calls[names[k]] =
                    enc_at_start[names[k]] + (IF h_srcs[k] = "file" THEN 0 ELSE 1)
        /\ h_pc = "store" =>
              /\ <<base, names[h_idx + 1]>> \in DOMAIN cache_files
              /\ cache_files[<<base, names[h_idx + 1]>>].val = local_weights.val
              /\ names[h_idx + 1] \in DOMAIN zeroshot_weights =>
                    zeroshot_weights[names[h_idx + 1]].id # local_weights.id
        /\ h_pc = "returned" =>
              \A k \in 1..Len(names) :
                 /\ names[k] \in DOMAIN zeroshot_weights
                 /\ <<base, names[k]>> \in DOMAIN cache_files
                 /\ zeroshot_weights[names[k]].val = cache_files[<<base, names[k]>>].val

\* C6 witness: a call over two tasks has returned, one head loaded from an
\* existing cache file and one computed and cached.
C6_Witness ==
    /\ h_pc = "returned"
    /\ Len(algos[h_self].model_names) = 2
    /\ h_srcs = <<"encoder", "file">>
    /\ h_existed = <<FALSE, TRUE>>
    /\ \A t \in {"t1", "t2"} : t \in DOMAIN zeroshot_weights

\* ------------------------------------- claims on the model's parameters
\* C11: once the model is built, the only model state that changes is the
\* trainable set, and only in the optimizer step: the frozen base and
\* expert weights and the zero-shot heads are left unchanged by every
\* operation of run(), and drawing batches, computing logits, zeroing and
\* back-propagating gradients, logging and checkpointing leave the
\* trainable parameters unchanged too.
C11_OnlyOptimizerStepWrites ==
    [][model.built =>
         /\ clf_heads' = clf_heads
         /\ DOMAIN params' = DOMAIN params
         /\ \A p \in DOMAIN params :
               /\ params'[p].requires_grad = params[p].requires_grad
               /\ ~params[p].requires_grad => params'[p] = params[p]
               /\ params'[p] # params[p] => pc = "step"]_vars

\* C11 witness: three optimizer steps have updated the gating network
\* three times, the third checkpoint is written, and the base model and
\* the experts are as they were built.
C11_Witness ==
    /\ pc = "for"
    /\ optimizer.steps = 3
    /\ optimizer.params = {"gate"}
    /\ params["gate"].version = 3
    /\ params["base"] = ModelParameters["base"]
    /\ params["experts"] = ModelParameters["experts"]
    /\ Len(checkpoints) >= 1
    /\ clf_heads = Range(model_names)

\* ------------------------------------- claims on the mapping's owner
\* self.zeroshot_weights read through the instance a: no instance assigns
\* the attribute, so the lookup ends at the class attribute (line 42), the
\* one dict of the class.
SelfZeroshotWeights(a) == zeroshot_weights

\* C12 as stated: the mapping is owned by one algorithm instance; the head
\* an instance has just stored for a task is not the entry of that task in
\* the mapping of any other instance, whatever calls of
\* on_test_time_adaptation_start came before.
C12_InstanceOwned ==
    last_store.algo \in Algos =>
        \A b \in Algos \ {last_store.algo} :
           \/ last_store.task \notin DOMAIN SelfZeroshotWeights(b)
           \/ SelfZeroshotWeights(b)[last_store.task].id # last_store.new.id

\* ------------------------------------- claims on the per-task streams
\* The position of a pass of length L after n next() calls on its stream.
PosAfter(n, L) == IF L = 0 \/ n = 0 THEN 0 ELSE ((n - 1) % L) + 1

\* One stream per instance and task: every getter call for the key has
\* returned the one object the cache holds, and that stream stands where
\* its own next() calls, and no others, have taken it.
OneCachedStream ==
    \A k \in CacheKeys :
       /\ Cardinality(handed[k]) <= 1
       /\ k \in DOMAIN loader_iter_cache <=> handed[k] # {}
       /\ k \in DOMAIN loader_iter_cache =>
             /\ handed[k] = {loader_iter_cache[k].id}
             /\ built[k] = 1
             /\ loader_iter_cache[k].data_iter.pos = PosAfter(nexts[k], pool_len[k[2]])

\* The mapping of load_datasets: one stream per name of model_names, each
\* standing where the draws of its own task have taken it.
OneStreamPerModelName ==
    /\ DOMAIN shuffled_test_loader_iters \in {{}, Range(model_names)}
    /\ pc \in StepPcs \cup {"optimizer", "for", "final", "return", "done"} =>
          DOMAIN shuffled_test_loader_iters = Range(model_names)
    /\ \A t \in DOMAIN shuffled_test_loader_iters :
          shuffled_test_loader_iters[t].data_iter.pos = PosAfter(advanced[t], test_len[t])

\* A step that changes a stream is a next() on that stream, and it leaves
\* every other stream, its pass and its position, as it was.
StreamsIndependent ==
    /\ \A k \in DOMAIN loader_iter_cache :
          /\ k \in DOMAIN loader_iter_cache'
          /\ loader_iter_cache'[k].id = loader_iter_cache[k].id
          /\ loader_iter_cache'[k] # loader_iter_cache[k] =>
                /\ nexts'[k] = nexts[k] + 1
                /\ \A o \in DOMAIN loader_iter_cache \ {k} :
                      /\ loader_iter_cache'[o] = loader_iter_cache[o]
                      /\ nexts'[o] = nexts[o]
    /\ \A t \in DOMAIN shuffled_test_loader_iters :
          /\ t \in DOMAIN shuffled_test_loader_iters'
          /\ shuffled_test_loader_iters'[t] # shuffled_test_loader_iters[t] =>
                /\ pc = "draw"
                /\ t = model_names[task_idx + 1]
                /\ \A o \in DOMAIN shuffled_test_loader_iters \ {t} :
                      shuffled_test_loader_iters'[o] = shuffled_test_loader_iters[o]

\* C13: each task has exactly one stream for the whole run and the streams
\* are independent: the getter returns the same stream object on every
\* call for the same instance and task and never restarts the task, the
\* mapping built by load_datasets has one entry per name in model_names,
\* and a next() on one task's stream changes neither the position nor the
\* pass of any other task's stream.
C13_OneIndependentStreamPerTask ==
    /\ [](OneCachedStream /\ OneStreamPerModelName)
    /\ [][StreamsIndependent]_vars

\* C13 witness: three getter calls over two instances gave two streams for
\* task t1, so one key was asked for twice and answered with its first
\* object; that stream has wrapped around its two batches while the other
\* instance's stream for the same task stands after its first batch.
C13_Witness ==
    /\ gets = 3
    /\ DOMAIN loader_iter_cache = {<<"a1", "t1">>, <<"a2", "t1">>}
    /\ got = [algo |-> "a1", task |-> "t1", id |-> <<"a1", "t1", 1>>]
    /\ pool_len["t1"] = 2
    /\ nexts[<<"a1", "t1">>] = 3
    /\ loader_iter_cache[<<"a1", "t1">>].data_iter.pos = 1
    /\ nexts[<<"a2", "t1">>] = 1
    /\ loader_iter_cache[<<"a2", "t1">>].data_iter.pos = 1
====
